---- MODULE Spec2Model ----
(***************************************************************************)
(* A model of the azure-ai-fastapi-demo gateway: the bearer-token          *)
(* authentication endpoints (app/routers/auth.py, app/auth/dependencies.py)*)
(* and the request pipeline of the inference endpoints with its facades    *)
(* (app/routers/*_endpoints.py, app/services/*.py).                        *)
(*                                                                         *)
(* Python values are modelled as follows: None is the string "None" where *)
(* a str is expected and the record NoneDict where a dict is expected, an  *)
(* HTTP response is a record [status, detail, headers, body], a raised     *)
(* HTTPException is the response FastAPI renders for it, time is counted   *)
(* in minutes since the process started.                                   *)
(***************************************************************************)
EXTENDS Integers, Sequences, FiniteSets, TLC

VARIABLES
    USERS_DB,                \* routers/auth.py USERS_DB: the records, in insertion order
    issued,                  \* number of uuid4() values handed out so far
    now,                     \* datetime.utcnow(), in minutes
    expireMinutes,           \* settings.JWT_ACCESS_TOKEN_EXPIRE_MINUTES of this process
    held,                    \* the tokens callers keep from earlier logins
    accounts,                \* history: the credentials register answered 201 for
    last,                    \* the latest call of an auth endpoint and its response
    inflight,                \* the register requests received, each with its response once handled
    ai_service_client,       \* ai_service.client is not None
    image_classifier_model,  \* image_classifier.model is not None
    blob_service_client,     \* blob_service.client is not None
    blob_probe,              \* what the construction of blob_service met
    monitoring_enabled,      \* monitoring_service.enabled
    DEBUG,                   \* settings.DEBUG of this process
    storage,                 \* the blobs of the storage container
    insights,                \* the telemetry records emitted so far
    pending,                 \* the background tasks added and not yet run
    invoked,                 \* the facade calls made by the latest step, in order
    lastCall                 \* the latest call of an inference endpoint and its response

authRest == <<USERS_DB, now, expireMinutes, held, accounts, last, inflight>>
authVars == <<USERS_DB, issued, now, expireMinutes, held, accounts, last, inflight>>
\* what is fixed when the process starts
facades == <<ai_service_client, image_classifier_model, blob_service_client,
             blob_probe, monitoring_enabled, DEBUG>>
pipeVars == <<ai_service_client, image_classifier_model, blob_service_client,
              blob_probe, monitoring_enabled, DEBUG, storage, insights, pending, invoked, lastCall>>

vars == <<authVars, pipeVars>>

(***************************************************************************)
(* Bounds of the model.                                                    *)
(***************************************************************************)
MaxUsers == 3
MaxHeld == 1
MaxTime == 30
TickMinutes == 15
MaxCalls == 2

(***************************************************************************)
(* Inputs.                                                                 *)
(***************************************************************************)
None == "None"
NoneDict == [none |-> TRUE]
Usernames == {"alice", "Alice"}
Emails == {"alice@x.com", "bob@x.com"}
Passwords == {"secret1", "secret2"}
\* full_name is optional: one of the names comes with it, the other without
FullNameOf(username) == IF username = "Alice" THEN "Alice A" ELSE None

UserCreate == {[username |-> n, email |-> e, password |-> p, full_name |-> FullNameOf(n)] :
                  n \in Usernames, e \in Emails, p \in Passwords}
UserLogin == [username : Usernames \cup {"bob"}, password : Passwords]

(***************************************************************************)
(* Settings (app/config.py).                                               *)
(***************************************************************************)
JWT_SECRET_KEY == "your-secret-key-change-in-production-min-32-chars"
JWT_ALGORITHM == "HS256"
JWT_ACCESS_TOKEN_EXPIRE_MINUTES == 30
\* BaseSettings reads each field from the environment, so a deployment may
\* run with another value than the default; 0 gives tokens with ttl <= 0.
ExpireMinutesChoices == {0, JWT_ACCESS_TOKEN_EXPIRE_MINUTES}

(***************************************************************************)
(* Sequences as Python collections.                                        *)
(***************************************************************************)
Range(s) == {s[i] : i \in 1..Len(s)}

\* next((u for u in seq if P(u)), None): the first element satisfying P
First(s, P(_)) ==
    IF \E i \in 1..Len(s) : P(s[i])
    THEN s[CHOOSE i \in 1..Len(s) : P(s[i]) /\ \A j \in 1..(i - 1) : ~P(s[j])]
    ELSE NoneDict

\* str(uuid.uuid4()): a value never handed out before
uuid4(n) == "uuid-" \o ToString(n + 1)

\* the random salt of a hashing call: a value never drawn before
gensalt(n) == "salt-" \o ToString(n + 1)

(***************************************************************************)
(* HTTP responses.                                                         *)
(***************************************************************************)
NoBody == [kind |-> "none"]
NoHeaders == {}
BearerChallenge == {<<"WWW-Authenticate", "Bearer">>}

HTTPException(status_code, detail, headers) ==
    [status |-> status_code, detail |-> detail, headers |-> headers, body |-> NoBody]

Returned(status_code, body) ==
    [status |-> status_code, detail |-> None, headers |-> NoHeaders, body |-> body]

\* User(**{k: v for k, v in user.items() if k != "hashed_password"})
UserView(user) ==
    [kind |-> "User", id |-> user.id, username |-> user.username,
     email |-> user.email, full_name |-> user.full_name,
     is_active |-> user.is_active, created_at |-> user.created_at]

(***************************************************************************)
(* Password Hasher and Token Codec (app/auth/jwt_handler.py).              *)
(***************************************************************************)
\* an adaptive one-way hash with the per-call salt embedded in the output
get_password_hash(password, salt) ==
    [salt |-> salt, digest |-> <<salt, password>>]

verify_password(password, hashed) ==
    hashed.digest = <<hashed.salt, password>>

\* the HMAC of header and payload under a key
Sign(alg, payload, key) == [alg |-> alg, over |-> payload, key |-> key, flipped |-> FALSE]

create_access_token(data, expires_delta, t) ==
    LET payload == [sub |-> data.sub, user_id |-> data.user_id, email |-> data.email,
                    full_name |-> data.full_name, iat |-> t, exp |-> t + expires_delta]
    IN  [alg |-> JWT_ALGORITHM, payload |-> payload,
         sig |-> Sign(JWT_ALGORITHM, payload, JWT_SECRET_KEY)]

SignatureVerifies(token) ==
    /\ token.alg = JWT_ALGORITHM
    /\ token.sig = Sign(JWT_ALGORITHM, token.payload, JWT_SECRET_KEY)

Expired(token, t) == token.payload.exp <= t

\* the payload of a token that verifies and has not expired, else None
verify_token(token, t) ==
    IF ~SignatureVerifies(token) THEN NoneDict
    ELSE IF Expired(token, t) THEN NoneDict
    ELSE token.payload

\* payload.get(key)
Get(payload, key) == IF key \in DOMAIN payload THEN payload[key] ELSE None

(***************************************************************************)
(* POST /auth/register                                                     *)
(***************************************************************************)
NewUser(user_data, user_id, salt, t) ==
    [id |-> user_id,
     username |-> user_data.username,
     email |-> user_data.email,
     full_name |-> user_data.full_name,
     hashed_password |-> get_password_hash(user_data.password, salt),
     is_active |-> TRUE,
     created_at |-> t]

\* register with the username check left out
register_without_username_check(db, user_data, user_id, salt, t) ==
    IF \E u \in Range(db) : u.email = user_data.email
    THEN [db |-> db, resp |-> HTTPException(400, "Email already registered", NoHeaders)]
    ELSE LET user == NewUser(user_data, user_id, salt, t)
         IN  [db |-> Append(db, user), resp |-> Returned(201, UserView(user))]

\* register with the email check left out
register_without_email_check(db, user_data, user_id, salt, t) ==
    IF \E u \in Range(db) : u.username = user_data.username
    THEN [db |-> db, resp |-> HTTPException(400, "Username already registered", NoHeaders)]
    ELSE LET user == NewUser(user_data, user_id, salt, t)
         IN  [db |-> Append(db, user), resp |-> Returned(201, UserView(user))]

\* register with the two checks in the other order
register_email_check_first(db, user_data, user_id, salt, t) ==
    IF \E u \in Range(db) : u.email = user_data.email
    THEN [db |-> db, resp |-> HTTPException(400, "Email already registered", NoHeaders)]
    ELSE IF \E u \in Range(db) : u.username = user_data.username
    THEN [db |-> db, resp |-> HTTPException(400, "Username already registered", NoHeaders)]
    ELSE LET user == NewUser(user_data, user_id, salt, t)
         IN  [db |-> Append(db, user), resp |-> Returned(201, UserView(user))]

\* register replacing the record that holds the email instead of refusing
register_replacing_by_email(db, user_data, user_id, salt, t) ==
    IF \E u \in Range(db) : u.username = user_data.username
    THEN [db |-> db, resp |-> HTTPException(400, "Username already registered", NoHeaders)]
    ELSE LET user == NewUser(user_data, user_id, salt, t)
         IN  IF \E u \in Range(db) : u.email = user_data.email
             THEN [db |-> [k \in DOMAIN db |-> IF db[k].email = user_data.email
                                               THEN user ELSE db[k]],
                   resp |-> Returned(201, UserView(user))]
             ELSE [db |-> Append(db, user), resp |-> Returned(201, UserView(user))]

register(db, user_data, user_id, salt, t) ==
    IF \E u \in Range(db) : u.username = user_data.username
    THEN [db |-> db, resp |-> HTTPException(400, "Username already registered", NoHeaders)]
    ELSE IF \E u \in Range(db) : u.email = user_data.email
    THEN [db |-> db, resp |-> HTTPException(400, "Email already registered", NoHeaders)]
    ELSE LET user == NewUser(user_data, user_id, salt, t)
         IN  [db |-> Append(db, user), resp |-> Returned(201, UserView(user))]

(***************************************************************************)
(* POST /auth/login                                                        *)
(***************************************************************************)
TokenBody(access_token, expires_in) ==
    [kind |-> "Token", access_token |-> access_token,
     token_type |-> "bearer", expires_in |-> expires_in]

IssueToken(user, user_id, minutes, expires_delta, t) ==
    Returned(200, TokenBody(
        create_access_token([sub |-> user.username, user_id |-> user_id,
                             email |-> user.email, full_name |-> user.full_name],
                            expires_delta, t),
        minutes * 60))

\* login telling an unknown username from a wrong password
login_reveals_unknown_user(db, login_data, minutes, t) ==
    LET Matches(u) == u.username = login_data.username
        user == First(db, Matches)
    IN  IF user = NoneDict
        THEN HTTPException(404, "User not found", NoHeaders)
        ELSE IF ~verify_password(login_data.password, user.hashed_password)
        THEN HTTPException(401, "Incorrect username or password", BearerChallenge)
        ELSE IF ~user.is_active
        THEN HTTPException(400, "Inactive user", NoHeaders)
        ELSE IssueToken(user, user.id, minutes, minutes, t)

\* login putting the id of the latest record into the token
login_with_latest_user_id(db, login_data, minutes, t) ==
    LET Matches(u) == u.username = login_data.username
        user == First(db, Matches)
    IN  IF user = NoneDict \/ ~verify_password(login_data.password, user.hashed_password)
        THEN HTTPException(401, "Incorrect username or password", BearerChallenge)
        ELSE IF ~user.is_active
        THEN HTTPException(400, "Inactive user", NoHeaders)
        ELSE IssueToken(user, db[Len(db)].id, minutes, minutes, t)

\* login taking the configured minutes for hours
login_expiry_in_hours(db, login_data, minutes, t) ==
    LET Matches(u) == u.username = login_data.username
        user == First(db, Matches)
    IN  IF user = NoneDict \/ ~verify_password(login_data.password, user.hashed_password)
        THEN HTTPException(401, "Incorrect username or password", BearerChallenge)
        ELSE IF ~user.is_active
        THEN HTTPException(400, "Inactive user", NoHeaders)
        ELSE IssueToken(user, user.id, minutes, minutes * 60, t)

login(db, login_data, minutes, t) ==
    LET Matches(u) == u.username = login_data.username
        user == First(db, Matches)
    IN  IF user = NoneDict \/ ~verify_password(login_data.password, user.hashed_password)
        THEN HTTPException(401, "Incorrect username or password", BearerChallenge)
        ELSE IF ~user.is_active
        THEN HTTPException(400, "Inactive user", NoHeaders)
        ELSE IssueToken(user, user.id, minutes, minutes, t)

(***************************************************************************)
(* The bearer-token dependency and GET /auth/me                            *)
(***************************************************************************)
credentials_exception ==
    HTTPException(401, "Could not validate credentials", BearerChallenge)

Raise(exc) == [raised |-> TRUE, exc |-> exc]
Return(value) == [raised |-> FALSE, value |-> value]

\* the dependency with the check of the required claims left out
get_current_user_without_claims_check(token, t) ==
    LET payload == verify_token(token, t)
    IN  IF payload = NoneDict THEN Raise(credentials_exception)
        ELSE Return([username |-> Get(payload, "sub"),
                     user_id |-> Get(payload, "user_id"),
                     email |-> Get(payload, "email"),
                     full_name |-> Get(payload, "full_name")])

get_current_user(token, t) ==
    LET payload == verify_token(token, t)
    IN  IF payload = NoneDict THEN Raise(credentials_exception)
        ELSE IF Get(payload, "sub") = None \/ Get(payload, "user_id") = None
        THEN Raise(credentials_exception)
        ELSE Return([username |-> Get(payload, "sub"),
                     user_id |-> Get(payload, "user_id"),
                     email |-> Get(payload, "email"),
                     full_name |-> Get(payload, "full_name")])

get_current_active_user(token, t) == get_current_user(token, t)

\* /me answering from the token's claims when the store has no record
get_current_user_info_from_claims(db, token, t) ==
    LET current_user == get_current_active_user(token, t)
    IN  IF current_user.raised THEN current_user.exc
        ELSE LET HasId(u) == u.id = current_user.value.user_id
                 user == First(db, HasId)
             IN  IF user = NoneDict
                 THEN Returned(200, [kind |-> "User", id |-> current_user.value.user_id,
                                     username |-> current_user.value.username,
                                     email |-> current_user.value.email,
                                     full_name |-> current_user.value.full_name,
                                     is_active |-> TRUE, created_at |-> t])
                 ELSE Returned(200, UserView(user))

get_current_user_info(db, token, t) ==
    LET current_user == get_current_active_user(token, t)
    IN  IF current_user.raised THEN current_user.exc
        ELSE LET HasId(u) == u.id = current_user.value.user_id
                 user == First(db, HasId)
             IN  IF user = NoneDict
                 THEN HTTPException(404, "User not found", NoHeaders)
                 ELSE Returned(200, UserView(user))

(***************************************************************************)
(* The tokens a caller can present.                                        *)
(***************************************************************************)
\* one bit of the signature segment flipped
FlipSignature(token) == [token EXCEPT !.sig.flipped = TRUE]

\* the payload rewritten to live longer, under the signature of the original
ExtendExpiry(token) == [token EXCEPT !.payload.exp = @ + MaxTime + TickMinutes]

\* a token signed with another key than the configured secret
ForgedToken(t) ==
    LET payload == [sub |-> "alice", user_id |-> uuid4(0), email |-> None,
                    full_name |-> None, iat |-> t, exp |-> MaxTime + TickMinutes]
    IN  [alg |-> JWT_ALGORITHM, payload |-> payload,
         sig |-> Sign(JWT_ALGORITHM, payload, "another-key")]

\* tokens signed with the configured secret but not issued by this process's
\* login: a token of a previous run of the process (USERS_DB starts empty,
\* the secret is configuration), and tokens without sub or without user_id
SignedElsewhere(payload) ==
    [alg |-> JWT_ALGORITHM, payload |-> payload,
     sig |-> Sign(JWT_ALGORITHM, payload, JWT_SECRET_KEY)]

StaleToken ==
    SignedElsewhere([sub |-> "carol", user_id |-> "uuid-of-an-earlier-run", email |-> None,
                     full_name |-> None, iat |-> 0, exp |-> JWT_ACCESS_TOKEN_EXPIRE_MINUTES])
NoSubToken ==
    SignedElsewhere([user_id |-> "uuid-of-an-earlier-run", iat |-> 0,
                     exp |-> JWT_ACCESS_TOKEN_EXPIRE_MINUTES])
NoUserIdToken ==
    SignedElsewhere([sub |-> "carol", iat |-> 0, exp |-> JWT_ACCESS_TOKEN_EXPIRE_MINUTES])

Presentable ==
    held \cup {FlipSignature(tok) : tok \in held} \cup {ExtendExpiry(tok) : tok \in held}
         \cup {ForgedToken(now), StaleToken, NoSubToken, NoUserIdToken}

(***************************************************************************)
(* Texts.  The mock analyses look for keywords with `word in text_lower`,  *)
(* a substring test, so a text is taken as the sequence of its characters. *)
(***************************************************************************)
Texts ==
    {"I love this product",
     "This product is absolutely amazing! I love it!",
     "I hate this awful app",
     "GOOD but sad",
     "good great excellent amazing wonderful fantastic love happy",
     "good great excellent amazing wonderful fantastic love happy bad terrible awful horrible hate sad angry poor",
     "What is cloud computing?",
     "the team won the match"}

\* a str as the sequence of its characters
Chars(s) ==
    CASE s = "I love this product" ->
            <<"I", " ", "l", "o", "v", "e", " ", "t", "h", "i", "s", " ", "p", "r", "o", "d", "u", "c", "t">>
      [] s = "This product is absolutely amazing! I love it!" ->
            <<"T", "h", "i", "s", " ", "p", "r", "o", "d", "u", "c", "t", " ", "i", "s", " ", "a", "b", "s", "o", "l", "u", "t", "e", "l", "y", " ", "a", "m", "a", "z", "i", "n", "g", "!", " ", "I", " ", "l", "o", "v", "e", " ", "i", "t", "!">>
      [] s = "I hate this awful app" ->
            <<"I", " ", "h", "a", "t", "e", " ", "t", "h", "i", "s", " ", "a", "w", "f", "u", "l", " ", "a", "p", "p">>
      [] s = "GOOD but sad" ->
            <<"G", "O", "O", "D", " ", "b", "u", "t", " ", "s", "a", "d">>
      [] s = "good great excellent amazing wonderful fantastic love happy" ->
            <<"g", "o", "o", "d", " ", "g", "r", "e", "a", "t", " ", "e", "x", "c", "e", "l", "l", "e", "n", "t", " ", "a", "m", "a", "z", "i", "n", "g", " ", "w", "o", "n", "d", "e", "r", "f", "u", "l", " ", "f", "a", "n", "t", "a", "s", "t", "i", "c", " ", "l", "o", "v", "e", " ", "h", "a", "p", "p", "y">>
      [] s = "good great excellent amazing wonderful fantastic love happy bad terrible awful horrible hate sad angry poor" ->
            <<"g", "o", "o", "d", " ", "g", "r", "e", "a", "t", " ", "e", "x", "c", "e", "l", "l", "e", "n", "t", " ", "a", "m", "a", "z", "i", "n", "g", " ", "w", "o", "n", "d", "e", "r", "f", "u", "l", " ", "f", "a", "n", "t", "a", "s", "t", "i", "c", " ", "l", "o", "v", "e", " ", "h", "a", "p", "p", "y", " ", "b", "a", "d", " ", "t", "e", "r", "r", "i", "b", "l", "e", " ", "a", "w", "f", "u", "l", " ", "h", "o", "r", "r", "i", "b", "l", "e", " ", "h", "a", "t", "e", " ", "s", "a", "d", " ", "a", "n", "g", "r", "y", " ", "p", "o", "o", "r">>
      [] s = "What is cloud computing?" ->
            <<"W", "h", "a", "t", " ", "i", "s", " ", "c", "l", "o", "u", "d", " ", "c", "o", "m", "p", "u", "t", "i", "n", "g", "?">>
      [] s = "the team won the match" ->
            <<"t", "h", "e", " ", "t", "e", "a", "m", " ", "w", "o", "n", " ", "t", "h", "e", " ", "m", "a", "t", "c", "h">>
      [] s = "good" ->
            <<"g", "o", "o", "d">>
      [] s = "great" ->
            <<"g", "r", "e", "a", "t">>
      [] s = "excellent" ->
            <<"e", "x", "c", "e", "l", "l", "e", "n", "t">>
      [] s = "amazing" ->
            <<"a", "m", "a", "z", "i", "n", "g">>
      [] s = "wonderful" ->
            <<"w", "o", "n", "d", "e", "r", "f", "u", "l">>
      [] s = "fantastic" ->
            <<"f", "a", "n", "t", "a", "s", "t", "i", "c">>
      [] s = "love" ->
            <<"l", "o", "v", "e">>
      [] s = "happy" ->
            <<"h", "a", "p", "p", "y">>
      [] s = "bad" ->
            <<"b", "a", "d">>
      [] s = "terrible" ->
            <<"t", "e", "r", "r", "i", "b", "l", "e">>
      [] s = "awful" ->
            <<"a", "w", "f", "u", "l">>
      [] s = "horrible" ->
            <<"h", "o", "r", "r", "i", "b", "l", "e">>
      [] s = "hate" ->
            <<"h", "a", "t", "e">>
      [] s = "sad" ->
            <<"s", "a", "d">>
      [] s = "angry" ->
            <<"a", "n", "g", "r", "y">>
      [] s = "poor" ->
            <<"p", "o", "o", "r">>
      [] s = "tech" ->
            <<"t", "e", "c", "h">>
      [] s = "software" ->
            <<"s", "o", "f", "t", "w", "a", "r", "e">>
      [] s = "computer" ->
            <<"c", "o", "m", "p", "u", "t", "e", "r">>
      [] s = "ai" ->
            <<"a", "i">>
      [] s = "data" ->
            <<"d", "a", "t", "a">>
      [] s = "cloud" ->
            <<"c", "l", "o", "u", "d">>
      [] s = "app" ->
            <<"a", "p", "p">>
      [] s = "business" ->
            <<"b", "u", "s", "i", "n", "e", "s", "s">>
      [] s = "company" ->
            <<"c", "o", "m", "p", "a", "n", "y">>
      [] s = "market" ->
            <<"m", "a", "r", "k", "e", "t">>
      [] s = "revenue" ->
            <<"r", "e", "v", "e", "n", "u", "e">>
      [] s = "profit" ->
            <<"p", "r", "o", "f", "i", "t">>
      [] s = "investment" ->
            <<"i", "n", "v", "e", "s", "t", "m", "e", "n", "t">>
      [] s = "sports" ->
            <<"s", "p", "o", "r", "t", "s">>
      [] s = "game" ->
            <<"g", "a", "m", "e">>
      [] s = "team" ->
            <<"t", "e", "a", "m">>
      [] s = "player" ->
            <<"p", "l", "a", "y", "e", "r">>
      [] s = "match" ->
            <<"m", "a", "t", "c", "h">>
      [] s = "championship" ->
            <<"c", "h", "a", "m", "p", "i", "o", "n", "s", "h", "i", "p">>
      [] s = "movie" ->
            <<"m", "o", "v", "i", "e">>
      [] s = "music" ->
            <<"m", "u", "s", "i", "c">>
      [] s = "film" ->
            <<"f", "i", "l", "m">>
      [] s = "show" ->
            <<"s", "h", "o", "w">>
      [] s = "celebrity" ->
            <<"c", "e", "l", "e", "b", "r", "i", "t", "y">>
      [] s = "entertainment" ->
            <<"e", "n", "t", "e", "r", "t", "a", "i", "n", "m", "e", "n", "t">>
      [] s = "politics" ->
            <<"p", "o", "l", "i", "t", "i", "c", "s">>
      [] s = "government" ->
            <<"g", "o", "v", "e", "r", "n", "m", "e", "n", "t">>
      [] s = "election" ->
            <<"e", "l", "e", "c", "t", "i", "o", "n">>
      [] s = "president" ->
            <<"p", "r", "e", "s", "i", "d", "e", "n", "t">>
      [] s = "policy" ->
            <<"p", "o", "l", "i", "c", "y">>
      [] s = "health" ->
            <<"h", "e", "a", "l", "t", "h">>
      [] s = "medical" ->
            <<"m", "e", "d", "i", "c", "a", "l">>
      [] s = "doctor" ->
            <<"d", "o", "c", "t", "o", "r">>
      [] s = "hospital" ->
            <<"h", "o", "s", "p", "i", "t", "a", "l">>
      [] s = "disease" ->
            <<"d", "i", "s", "e", "a", "s", "e">>
      [] s = "treatment" ->
            <<"t", "r", "e", "a", "t", "m", "e", "n", "t">>
      [] s = "image/" ->
            <<"i", "m", "a", "g", "e", "/">>
      [] s = "image/png" ->
            <<"i", "m", "a", "g", "e", "/", "p", "n", "g">>
      [] s = "image/jpeg" ->
            <<"i", "m", "a", "g", "e", "/", "j", "p", "e", "g">>
      [] s = "text/plain" ->
            <<"t", "e", "x", "t", "/", "p", "l", "a", "i", "n">>

\* str.lower() on one character
LowerChar(c) ==
    CASE c = "A" -> "a"
      [] c = "B" -> "b"
      [] c = "C" -> "c"
      [] c = "D" -> "d"
      [] c = "E" -> "e"
      [] c = "F" -> "f"
      [] c = "G" -> "g"
      [] c = "H" -> "h"
      [] c = "I" -> "i"
      [] c = "J" -> "j"
      [] c = "K" -> "k"
      [] c = "L" -> "l"
      [] c = "M" -> "m"
      [] c = "N" -> "n"
      [] c = "O" -> "o"
      [] c = "P" -> "p"
      [] c = "Q" -> "q"
      [] c = "R" -> "r"
      [] c = "S" -> "s"
      [] c = "T" -> "t"
      [] c = "U" -> "u"
      [] c = "V" -> "v"
      [] c = "W" -> "w"
      [] c = "X" -> "x"
      [] c = "Y" -> "y"
      [] c = "Z" -> "z"
      [] OTHER -> c

positive_words == <<"good", "great", "excellent", "amazing", "wonderful", "fantastic", "love", "happy">>

negative_words == <<"bad", "terrible", "awful", "horrible", "hate", "sad", "angry", "poor">>

categories == <<"Technology", "Business", "Sports", "Entertainment", "Politics", "Health">>

keywords ==
    [Technology |-> <<"tech", "software", "computer", "ai", "data", "cloud", "app">>,
     Business |-> <<"business", "company", "market", "revenue", "profit", "investment">>,
     Sports |-> <<"sports", "game", "team", "player", "match", "championship">>,
     Entertainment |-> <<"movie", "music", "film", "show", "celebrity", "entertainment">>,
     Politics |-> <<"politics", "government", "election", "president", "policy">>,
     Health |-> <<"health", "medical", "doctor", "hospital", "disease", "treatment">>]

\* text.lower()
lower(cs) == [i \in 1..Len(cs) |-> LowerChar(cs[i])]

\* word in text
Contains(word, text) ==
    \E i \in 1..(Len(text) - Len(word) + 1) : SubSeq(text, i, i + Len(word) - 1) = word

\* sum(1 for word in words if word in text_lower)
CountIn(words, text_lower) ==
    Cardinality({i \in 1..Len(words) : Contains(Chars(words[i]), text_lower)})

Min(a, b) == IF a <= b THEN a ELSE b
Max(a, b) == IF a >= b THEN a ELSE b

(***************************************************************************)
(* A call of a facade method returns or raises, and either has called the  *)
(* external collaborator or has not.                                       *)
(***************************************************************************)
Returns(value, called) == [raised |-> FALSE, value |-> value, called |-> called]
Raises(exc, called) == [raised |-> TRUE, exc |-> exc, called |-> called]

(***************************************************************************)
(* AzureAIService (app/services/ai_service.py).  Scores and confidences    *)
(* of the sentiment analysis are in hundredths, those of the text          *)
(* classification in 2100ths (the keyword lists have 7, 6 and 5 words),    *)
(* processing times in milliseconds.                                       *)
(***************************************************************************)
\* self.client after __init__: set when endpoint and key are configured and
\* the AzureOpenAI constructor did not raise
AzureAIService_init(configured, constructed) == configured /\ constructed

\* the mock sentiment analysis deciding a tie of the two counts as positive
_mock_sentiment_analysis_ties_positive(text) ==
    LET text_lower == lower(Chars(text))
        positive_score == CountIn(positive_words, text_lower) * 10
        negative_score == CountIn(negative_words, text_lower) * 10
        neutral_score == 100 - positive_score - negative_score
        sentiment == IF positive_score >= negative_score THEN "positive" ELSE "negative"
        confidence == IF positive_score >= negative_score THEN Min(50 + positive_score, 95)
                      ELSE Min(50 + negative_score, 95)
    IN  [sentiment |-> sentiment,
         confidence |-> confidence,
         scores |-> [positive |-> IF sentiment = "positive"
                                  THEN Min(positive_score + 30, 100) ELSE positive_score,
                     negative |-> IF sentiment = "negative"
                                  THEN Min(negative_score + 30, 100) ELSE negative_score,
                     neutral |-> neutral_score],
         processing_time |-> 100]

_mock_sentiment_analysis(text) ==
    LET text_lower == lower(Chars(text))
        positive_score == CountIn(positive_words, text_lower) * 10
        negative_score == CountIn(negative_words, text_lower) * 10
        neutral_score == 100 - positive_score - negative_score
        sentiment == IF positive_score > negative_score THEN "positive"
                     ELSE IF negative_score > positive_score THEN "negative"
                     ELSE "neutral"
        confidence == IF positive_score > negative_score THEN Min(50 + positive_score, 95)
                      ELSE IF negative_score > positive_score THEN Min(50 + negative_score, 95)
                      ELSE 60
    IN  [sentiment |-> sentiment,
         confidence |-> confidence,
         scores |-> [positive |-> IF sentiment = "positive"
                                  THEN Min(positive_score + 30, 100) ELSE positive_score,
                     negative |-> IF sentiment = "negative"
                                  THEN Min(negative_score + 30, 100) ELSE negative_score,
                     neutral |-> neutral_score],
         processing_time |-> 100]

_mock_text_classification(text) ==
    LET text_lower == lower(Chars(text))
        scores == [category \in Range(categories) |->
                      Min((CountIn(keywords[category], text_lower) * 2100)
                              \div Len(keywords[category]) + 210, 1890)]
        \* max(scores.items(), key=...): the first category with the highest score
        best == CHOOSE i \in 1..Len(categories) :
                    /\ \A j \in 1..Len(categories) : scores[categories[j]] <= scores[categories[i]]
                    /\ \A j \in 1..(i - 1) : scores[categories[j]] < scores[categories[i]]
    IN  [category |-> categories[best],
         confidence |-> scores[categories[best]],
         all_scores |-> scores,
         processing_time |-> 100]

\* what the completion backend does with one request: it raises, or it
\* answers a text the service parses as JSON
SentimentUpstream ==
    {[kind |-> "raise", message |-> "Request timed out."],
     [kind |-> "json", elapsed |-> 20,
      value |-> [sentiment |-> "positive", confidence |-> 90,
                 scores |-> [positive |-> 90, negative |-> 5, neutral |-> 5]]]}

ClassificationUpstream ==
    {[kind |-> "raise", message |-> "Request timed out."],
     [kind |-> "json", elapsed |-> 20,
      value |-> [category |-> "Business", confidence |-> 1680,
                 all_scores |-> [Business |-> 1680, Technology |-> 420]]]}

ChatUpstream ==
    {[kind |-> "raise", message |-> "Request timed out."],
     [kind |-> "completion", elapsed |-> 20,
      content |-> "Cloud computing is ...", total_tokens |-> 42]}

\* result = json.loads(result_text); result['processing_time'] = ...
WithProcessingTime(result, elapsed) == [processing_time |-> elapsed] @@ result

\* analyze_sentiment whose fallback looks at the language
analyze_sentiment_by_language(client, text, language, upstream) ==
    IF ~client
    THEN Returns(IF language = "en" THEN _mock_sentiment_analysis(text)
                 ELSE [_mock_sentiment_analysis(text) EXCEPT !.sentiment = "neutral",
                                                             !.confidence = 60], FALSE)
    ELSE IF upstream.kind = "raise" THEN Returns(_mock_sentiment_analysis(text), TRUE)
    ELSE Returns(WithProcessingTime(upstream.value, upstream.elapsed), TRUE)

analyze_sentiment(client, text, language, upstream) ==
    IF ~client THEN Returns(_mock_sentiment_analysis(text), FALSE)
    ELSE IF upstream.kind = "raise" THEN Returns(_mock_sentiment_analysis(text), TRUE)
    ELSE Returns(WithProcessingTime(upstream.value, upstream.elapsed), TRUE)

classify_text(client, text, custom_categories, upstream) ==
    IF ~client THEN Returns(_mock_text_classification(text), FALSE)
    ELSE IF upstream.kind = "raise" THEN Returns(_mock_text_classification(text), TRUE)
    ELSE Returns(WithProcessingTime(upstream.value, upstream.elapsed), TRUE)

AZURE_OPENAI_DEPLOYMENT == "gpt-35-turbo"

\* chat_completion without its "if not self.client" branch: the call on the
\* missing client raises inside the try block and the error is re-raised
chat_completion_without_client_check(client, prompt, max_tokens, temperature, upstream) ==
    IF ~client THEN Raises("'NoneType' object has no attribute 'chat'", FALSE)
    ELSE IF upstream.kind = "raise" THEN Raises(upstream.message, TRUE)
    ELSE Returns([response |-> upstream.content, model |-> AZURE_OPENAI_DEPLOYMENT,
                  tokens_used |-> upstream.total_tokens,
                  processing_time |-> upstream.elapsed], TRUE)

chat_completion(client, prompt, max_tokens, temperature, upstream) ==
    IF ~client
    THEN Returns([response |-> "Azure OpenAI is not configured. This is a mock response.",
                  model |-> "mock", tokens_used |-> 0, processing_time |-> 0], FALSE)
    ELSE IF upstream.kind = "raise" THEN Raises(upstream.message, TRUE)
    ELSE Returns([response |-> upstream.content, model |-> AZURE_OPENAI_DEPLOYMENT,
                  tokens_used |-> upstream.total_tokens,
                  processing_time |-> upstream.elapsed], TRUE)

(***************************************************************************)
(* ImageClassifierService (app/services/image_classifier.py).              *)
(* Confidences are in hundredths.                                          *)
(***************************************************************************)
classes == <<"lying", "standing", "sitting">>

\* self.model after __init__: set when ultralytics imports, the model file
\* exists and YOLO() did not raise
ImageClassifierService_init(importable, file_exists, loaded) ==
    importable /\ file_exists /\ loaded

\* the draws of random.choice and random.uniform in one mock classification
ConfidenceDraws == {70, 82, 95}
OtherDraws == {5, 30}
RandomDraws ==
    [pose : Range(classes), confidence : ConfidenceDraws,
     others : [Range(classes) -> OtherDraws]]

\* the mock classification drawing a score for every class, the pose included
_mock_classification_all_drawn(rnd) ==
    [pose |-> rnd.pose,
     confidence |-> rnd.confidence,
     all_scores |-> [cls \in Range(classes) |-> rnd.others[cls]],
     detections_count |-> 1,
     processing_time |-> 150,
     message |-> "Using mock classification (model not loaded)"]

_mock_classification(rnd) ==
    [pose |-> rnd.pose,
     confidence |-> rnd.confidence,
     all_scores |-> [cls \in Range(classes) |->
                        IF cls = rnd.pose THEN rnd.confidence ELSE rnd.others[cls]],
     detections_count |-> 1,
     processing_time |-> 150,
     message |-> "Using mock classification (model not loaded)"]

\* what opening the image and running the model on it does: it raises, or
\* it gives the boxes (class index, confidence) of the detections
ModelRuns ==
    {[kind |-> "raise", message |-> "cannot identify image file"],
     [kind |-> "results", elapsed |-> 20, boxes |-> <<>>],
     [kind |-> "results", elapsed |-> 20, boxes |-> <<[cls |-> 2, conf |-> 88]>>],
     [kind |-> "results", elapsed |-> 20,
      boxes |-> <<[cls |-> 1, conf |-> 61], [cls |-> 2, conf |-> 88], [cls |-> 2, conf |-> 40]>>]}

\* confidences.argmax(): the first index of the highest confidence
ArgMax(boxes) ==
    CHOOSE i \in 1..Len(boxes) :
        /\ \A j \in 1..Len(boxes) : boxes[j].conf <= boxes[i].conf
        /\ \A j \in 1..(i - 1) : boxes[j].conf < boxes[i].conf

Detected(boxes, elapsed) ==
    LET best == boxes[ArgMax(boxes)]
        ScoreOf(i) == LET confs == {boxes[k].conf : k \in {k \in 1..Len(boxes) : boxes[k].cls = i}}
                      IN  IF confs = {} THEN 0
                          ELSE CHOOSE c \in confs : \A d \in confs : d <= c
    IN  [pose |-> classes[best.cls],
         confidence |-> best.conf,
         all_scores |-> [cls \in Range(classes) |->
                            ScoreOf(CHOOSE i \in 1..Len(classes) : classes[i] = cls)],
         detections_count |-> Len(boxes),
         processing_time |-> elapsed]

NotDetected(elapsed) ==
    [pose |-> "unknown",
     confidence |-> 0,
     all_scores |-> [cls \in Range(classes) |-> 0],
     detections_count |-> 0,
     processing_time |-> elapsed,
     message |-> "No human detected in image"]

classify_image(model, image_bytes, run, rnd) ==
    IF ~model THEN Returns(_mock_classification(rnd), FALSE)
    ELSE IF run.kind = "raise" THEN Returns(_mock_classification(rnd), TRUE)
    ELSE IF Len(run.boxes) > 0 THEN Returns(Detected(run.boxes, run.elapsed), TRUE)
    ELSE Returns(NotDetected(run.elapsed), TRUE)

(***************************************************************************)
(* BlobStorageService (app/services/blob_storage.py).  The container maps  *)
(* the names of its blobs to [content, content_type].                      *)
(***************************************************************************)
\* _ensure_container_exists catches whatever the readiness check raises
_ensure_container_exists(container_ok) == TRUE

\* what __init__ may meet: the connection string is configured or not,
\* from_connection_string returns or raises, the container check (exists,
\* else create) returns or raises
Probes == [connection_string : BOOLEAN, connected : BOOLEAN, container_ok : BOOLEAN]
ProbeOf(connection_string, connected, container_ok) ==
    [connection_string |-> connection_string, connected |-> connected,
     container_ok |-> container_ok]

\* self.client after __init__
BlobStorageService_init(connection_string, connected, container_ok) ==
    IF connection_string
    THEN IF connected /\ _ensure_container_exists(container_ok) THEN TRUE ELSE FALSE
    ELSE FALSE

\* upload_blob(..., overwrite=True)
upload_blob(container, name, content, content_type) ==
    (name :> [content |-> content, content_type |-> content_type]) @@ container

\* strftime("%Y%m%d") and strftime("%Y%m%d_%H%M%S") of a time in minutes
Day(t) == "day" \o ToString(t \div (24 * 60))
DayAndTime(t) == Day(t) \o "_" \o ToString(t % (24 * 60))

isoformat(t) == "T" \o ToString(t)

UploadOutcomes == {"ok", "raise"}

\* the value returned, the container afterwards, and the dict the caller
\* passed in as the method leaves it
save_request_log(blob_client, container, request_id, data, t, upload) ==
    IF ~blob_client
    THEN [value |-> FALSE, called |-> FALSE, container |-> container, data |-> data]
    ELSE LET blob_name == "logs/" \o Day(t) \o "/" \o request_id \o ".json"
             logged == [logged_at |-> isoformat(t)] @@ data
         IN  IF upload = "raise"
             THEN [value |-> FALSE, called |-> TRUE, container |-> container, data |-> logged]
             ELSE [value |-> TRUE, called |-> TRUE,
                   container |-> upload_blob(container, blob_name, logged, "application/json"),
                   data |-> logged]

save_input_file(blob_client, container, file_name, file_content, content_type, t, upload) ==
    IF ~blob_client
    THEN [value |-> None, called |-> FALSE, container |-> container]
    ELSE LET blob_name == "inputs/" \o DayAndTime(t) \o "_" \o file_name
         IN  IF upload = "raise"
             THEN [value |-> None, called |-> TRUE, container |-> container]
             ELSE [value |-> "https://blob/" \o blob_name, called |-> TRUE,
                   container |-> upload_blob(container, blob_name, file_content, content_type)]

(***************************************************************************)
(* MonitoringService (app/services/monitoring.py).                         *)
(***************************************************************************)
\* self.enabled after __init__
MonitoringService_init(instrumentation_key, opencensus_available, handler_ok) ==
    instrumentation_key /\ opencensus_available /\ handler_ok

\* the telemetry records after track_event(event_name, properties)
track_event(is_enabled, sink, event_name, properties) ==
    IF ~is_enabled THEN sink
    ELSE Append(sink, [event |-> event_name, properties |-> properties])

log_event_to_insights(is_enabled, sink, event_name, properties) ==
    track_event(is_enabled, sink, event_name, properties)

(***************************************************************************)
(* The handler of the exceptions no endpoint catches (app/main.py).        *)
(***************************************************************************)
global_exception_handler(debug, exc) ==
    [status |-> 500,
     detail |-> IF debug THEN exc ELSE "An error occurred",
     headers |-> NoHeaders,
     body |-> [kind |-> "error", error |-> "Internal server error"]]

(***************************************************************************)
(* The request pipeline (app/routers/ai_endpoints.py, image_endpoints.py). *)
(* A handler gives the response, the telemetry records after it, the       *)
(* background tasks it added, and the facade call it made.                 *)
(***************************************************************************)
NotInvoked == [op |-> "none"]
Invocation(op, available, input, out) ==
    [op |-> op, available |-> available, input |-> input, out |-> out]

Handled(resp, telemetry, tasks, facade) ==
    [resp |-> resp, sink |-> telemetry, tasks |-> tasks, facade |-> facade]

\* result[key] for each key the response is built from: a missing key is a KeyError
MissingKey(result, keys) == CHOOSE k \in keys : k \notin DOMAIN result

\* len(text)
len(text) == Len(Chars(text))

Task_save_request_to_blob(request_id, endpoint, request_data, response_data) ==
    [fn |-> "save_request_to_blob", request_id |-> request_id, endpoint |-> endpoint,
     request_data |-> request_data, response_data |-> response_data]

Task_save_image_to_blob(request_id, image_bytes, filename, result) ==
    [fn |-> "save_image_to_blob", request_id |-> request_id, image_bytes |-> image_bytes,
     filename |-> filename, result |-> result]

\* the body of a text endpoint after request_id = str(uuid.uuid4()): the
\* facade has answered `out`, the response is built from `keys` of the result
TextEndpoint(op, endpoint, available, request, request_id, telemetry, out, keys, text_key) ==
    LET facade == Invocation(op, available, request, out)
    IN  IF out.raised
        THEN Handled(HTTPException(500, out.exc, NoHeaders), telemetry, <<>>, facade)
        ELSE IF ~(keys \subseteq DOMAIN out.value)
        THEN Handled(HTTPException(500, "'" \o MissingKey(out.value, keys) \o "'", NoHeaders),
                     telemetry, <<>>, facade)
        ELSE LET response == [k \in keys |-> out.value[k]]
                                 @@ [request_id |-> request_id]
                                 @@ (text_key :> request[text_key])
                                 @@ [kind |-> endpoint]
             IN  Handled(Returned(200, response), telemetry,
                         <<Task_save_request_to_blob(request_id, endpoint, request, response)>>,
                         facade)

\* POST /api/v1/sentiment
analyze_sentiment_endpoint(svc, telemetry, request, request_id, upstream) ==
    TextEndpoint("analyze_sentiment", "sentiment_analysis", svc.client, request, request_id,
        log_event_to_insights(svc.enabled, telemetry, "sentiment_analysis_request",
            [request_id |-> request_id, text_length |-> len(request.text),
             language |-> request.language]),
        analyze_sentiment(svc.client, request.text, request.language, upstream),
        {"sentiment", "confidence", "scores", "processing_time"}, "text")

\* POST /api/v1/classify
classify_text_endpoint(svc, telemetry, request, request_id, upstream) ==
    TextEndpoint("classify_text", "text_classification", svc.client, request, request_id,
        log_event_to_insights(svc.enabled, telemetry, "text_classification_request",
            [request_id |-> request_id, text_length |-> len(request.text),
             has_custom_categories |-> (request.categories # None)]),
        classify_text(svc.client, request.text, request.categories, upstream),
        {"category", "confidence", "all_scores", "processing_time"}, "text")

\* POST /api/v1/chat
chat_completion_endpoint(svc, telemetry, request, request_id, upstream) ==
    TextEndpoint("chat_completion", "chat_completion", svc.client, request, request_id,
        log_event_to_insights(svc.enabled, telemetry, "chat_completion_request",
            [request_id |-> request_id, prompt_length |-> len(request.prompt),
             max_tokens |-> request.max_tokens, temperature |-> request.temperature]),
        chat_completion(svc.client, request.prompt, request.max_tokens,
                        request.temperature, upstream),
        {"response", "model", "tokens_used", "processing_time"}, "prompt")

\* content_type.startswith('image/')
startswith(s, prefix) ==
    /\ Len(Chars(prefix)) <= Len(Chars(s))
    /\ SubSeq(Chars(s), 1, Len(Chars(prefix))) = Chars(prefix)

\* the handler emitting its telemetry event before it looks at the content type
classify_human_pose_validating_late(svc, telemetry, image, request_id, run, rnd) ==
    IF ~startswith(image.content_type, "image/")
    THEN Handled(HTTPException(400, "File must be an image", NoHeaders),
                 log_event_to_insights(svc.enabled, telemetry, "image_classification_request",
                                       [request_id |-> request_id, filename |-> image.filename,
                                        content_type |-> image.content_type]),
                 <<>>, NotInvoked)
    ELSE LET events == log_event_to_insights(svc.enabled, telemetry,
                           "image_classification_request",
                           [request_id |-> request_id, filename |-> image.filename,
                            content_type |-> image.content_type])
             out == classify_image(svc.model, image.bytes, run, rnd)
             result == out.value
             response == [kind |-> "image_classification",
                          filename |-> image.filename,
                          pose |-> result.pose,
                          confidence |-> result.confidence,
                          all_scores |-> result.all_scores,
                          detections_count |-> result.detections_count,
                          processing_time |-> result.processing_time,
                          request_id |-> request_id]
                         @@ (IF "message" \in DOMAIN result
                             THEN [message |-> result.message] ELSE <<>>)
         IN  Handled(Returned(200, response), events,
                     <<Task_save_image_to_blob(request_id, image.bytes, image.filename, result)>>,
                     Invocation("classify_image", svc.model, image, out))

\* POST /api/v1/classify-pose
classify_human_pose(svc, telemetry, image, request_id, run, rnd) ==
    IF ~startswith(image.content_type, "image/")
    THEN Handled(HTTPException(400, "File must be an image", NoHeaders), telemetry, <<>>,
                 NotInvoked)
    ELSE LET events == log_event_to_insights(svc.enabled, telemetry,
                           "image_classification_request",
                           [request_id |-> request_id, filename |-> image.filename,
                            content_type |-> image.content_type])
             out == classify_image(svc.model, image.bytes, run, rnd)
             result == out.value
             response == [kind |-> "image_classification",
                          filename |-> image.filename,
                          pose |-> result.pose,
                          confidence |-> result.confidence,
                          all_scores |-> result.all_scores,
                          detections_count |-> result.detections_count,
                          processing_time |-> result.processing_time,
                          request_id |-> request_id]
                         @@ (IF "message" \in DOMAIN result
                             THEN [message |-> result.message] ELSE <<>>)
         IN  Handled(Returned(200, response), events,
                     <<Task_save_image_to_blob(request_id, image.bytes, image.filename, result)>>,
                     Invocation("classify_image", svc.model, image, out))

(***************************************************************************)
(* The background tasks.  A task gives the container after it and the      *)
(* facade calls it made, in order.                                         *)
(***************************************************************************)
save_request_to_blob(blob, blobs, task, t, upload) ==
    LET log_data == [request_id |-> task.request_id,
                     endpoint |-> task.endpoint,
                     request |-> task.request_data,
                     response |-> task.response_data,
                     timestamp |-> isoformat(t)]
        saved == save_request_log(blob, blobs, task.request_id, log_data, t, upload)
    IN  [container |-> saved.container,
         calls |-> <<Invocation("save_request_log", blob, log_data, saved)>>]

save_image_to_blob(blob, blobs, task, t, upload_file, upload_log) ==
    LET file == save_input_file(blob, blobs, task.request_id \o "_" \o task.filename,
                                task.image_bytes, "image/jpeg", t, upload_file)
        log_data == [request_id |-> task.request_id,
                     endpoint |-> "image_classification",
                     filename |-> task.filename,
                     image_url |-> file.value,
                     result |-> task.result,
                     timestamp |-> isoformat(t)]
        saved == save_request_log(blob, file.container, task.request_id, log_data, t, upload_log)
    IN  [container |-> saved.container,
         calls |-> <<Invocation("save_input_file", blob,
                                [file_name |-> task.request_id \o "_" \o task.filename,
                                 content_type |-> "image/jpeg"], file),
                     Invocation("save_request_log", blob, log_data, saved)>>]

(***************************************************************************)
(* The requests callers send.                                              *)
(***************************************************************************)
NoCredentials == [scheme |-> "none"]

SentimentRequests == [text : {"I love this product", "I hate this awful app", "GOOD but sad"},
                      language : {"en"}]
ClassificationRequests == [text : {"the team won the match"}, categories : {None}]
ChatRequests == [prompt : {"What is cloud computing?"}, max_tokens : {100}, temperature : {"0.7"}]
Images == [filename : {"pose.png"}, content_type : {"image/png", "text/plain"},
           bytes : {"<png bytes>"}]
PipelineDraws == {rnd \in RandomDraws : rnd.pose = "standing" /\ rnd.confidence = 82
                                         /\ \A cls \in Range(classes) : rnd.others[cls] = 5}

(***************************************************************************)
(* The states of the process.                                              *)
(***************************************************************************)
NoCall == [op |-> "none", req |-> NoBody, resp |-> Returned(0, NoBody)]
NoInferenceCall == [op |-> "none", credentials |-> NoCredentials, request_id |-> None,
                    resp |-> Returned(0, NoBody), facade |-> NotInvoked]

InitAuth ==
    /\ USERS_DB = <<>>
    /\ issued = 0
    /\ now = 0
    /\ expireMinutes \in ExpireMinutesChoices
    /\ held = {}
    /\ accounts = {}
    /\ last = NoCall
    /\ inflight = <<>>

\* the singletons as their constructors leave them
InitFacades ==
    /\ ai_service_client \in {AzureAIService_init(c, k) : c, k \in BOOLEAN}
    /\ image_classifier_model \in {ImageClassifierService_init(i, f, l) : i, f, l \in BOOLEAN}
    /\ blob_service_client \in {BlobStorageService_init(s, c, r) : s, c, r \in BOOLEAN}
    /\ blob_probe = IF blob_service_client THEN ProbeOf(TRUE, TRUE, TRUE)
                    ELSE ProbeOf(FALSE, FALSE, FALSE)
    /\ monitoring_enabled \in {MonitoringService_init(k, o, h) : k, o, h \in BOOLEAN}

InitPipeline ==
    /\ storage = <<>>
    /\ insights = <<>>
    /\ pending = {}
    /\ invoked = <<>>
    /\ lastCall = NoInferenceCall

\* a process started without any of the Azure settings (the defaults of config.py)
Unconfigured ==
    /\ ai_service_client = AzureAIService_init(FALSE, FALSE)
    /\ image_classifier_model = ImageClassifierService_init(FALSE, FALSE, FALSE)
    /\ blob_service_client = BlobStorageService_init(FALSE, FALSE, FALSE)
    /\ blob_probe = ProbeOf(FALSE, FALSE, FALSE)
    /\ monitoring_enabled = MonitoringService_init(FALSE, FALSE, FALSE)
    /\ DEBUG = TRUE

Init == InitAuth /\ Unconfigured /\ InitPipeline

(***************************************************************************)
(* The auth endpoints as steps of the process.                             *)
(***************************************************************************)
RegisterCall ==
    /\ issued < MaxUsers
    /\ \E user_data \in UserCreate :
          LET r == register(USERS_DB, user_data, uuid4(issued), gensalt(issued), now)
          IN  /\ USERS_DB' = r.db
              \* uuid4() is only called once both duplicate checks passed
              /\ issued' = IF r.db = USERS_DB THEN issued ELSE issued + 1
              /\ accounts' = IF r.resp.status = 201
                             THEN accounts \cup {[username |-> user_data.username,
                                                    password |-> user_data.password]}
                             ELSE accounts
              /\ last' = [op |-> "register", req |-> user_data, resp |-> r.resp]
    /\ UNCHANGED <<now, expireMinutes, held, inflight, pipeVars>>

LoginCall ==
    /\ \E login_data \in UserLogin :
          LET resp == login(USERS_DB, login_data, expireMinutes, now)
          IN  /\ last' = [op |-> "login", req |-> login_data, resp |-> resp]
              /\ held' = IF resp.status = 200 /\ Cardinality(held) < MaxHeld
                         THEN held \cup {resp.body.access_token}
                         ELSE held
    /\ UNCHANGED <<USERS_DB, issued, now, expireMinutes, accounts, inflight, pipeVars>>

MeCall ==
    /\ \E token \in Presentable :
          last' = [op |-> "me", req |-> token,
                   resp |-> get_current_user_info(USERS_DB, token, now)]
    /\ UNCHANGED <<USERS_DB, issued, now, expireMinutes, held, accounts, inflight, pipeVars>>

Tick ==
    /\ now + TickMinutes <= MaxTime
    /\ now' = now + TickMinutes
    /\ UNCHANGED <<USERS_DB, issued, expireMinutes, held, accounts, last, inflight, pipeVars>>

Next == RegisterCall \/ LoginCall \/ MeCall \/ Tick

Spec == Init /\ [][Next]_vars

(***************************************************************************)
(* The inference endpoints and the background tasks as steps.              *)
(***************************************************************************)
Services == [client |-> ai_service_client, model |-> image_classifier_model,
             blob_client |-> blob_service_client, enabled |-> monitoring_enabled]

\* the credentials a request may carry; no inference endpoint declares the
\* bearer-token dependency, so a handler never looks at them
Credentials == {NoCredentials, StaleToken, ForgedToken(now)}

\* the state after a handler has run for a request carrying `credentials`
\* a handler that awaits the save of its record before it returns
Respond_saving_inline(op, credentials, request_id, h) ==
    LET Save(blobs, task) ==
            IF task.fn = "save_request_to_blob"
            THEN save_request_to_blob(blob_service_client, blobs, task, now, "ok")
            ELSE save_image_to_blob(blob_service_client, blobs, task, now, "ok", "ok")
        done == IF h.tasks = <<>> THEN [container |-> storage, calls |-> <<>>]
                ELSE Save(storage, h.tasks[1])
    IN  /\ issued' = issued + 1
        /\ insights' = h.sink
        /\ pending' = pending
        /\ storage' = done.container
        /\ invoked' = (IF h.facade = NotInvoked THEN <<>> ELSE <<h.facade>>) \o done.calls
        /\ lastCall' = [op |-> op, credentials |-> credentials, request_id |-> request_id,
                        resp |-> h.resp, facade |-> h.facade]
        /\ UNCHANGED <<authRest, facades>>

\* a handler that does not draw a new id for its call
Respond_reusing_id(op, credentials, request_id, h) ==
    /\ issued' = issued
    /\ insights' = h.sink
    /\ pending' = pending \cup Range(h.tasks)
    /\ invoked' = IF h.facade = NotInvoked THEN <<>> ELSE <<h.facade>>
    /\ lastCall' = [op |-> op, credentials |-> credentials, request_id |-> request_id,
                    resp |-> h.resp, facade |-> h.facade]
    /\ UNCHANGED <<authRest, facades, storage>>

Respond(op, credentials, request_id, h) ==
    /\ issued' = issued + 1
    /\ insights' = h.sink
    /\ pending' = pending \cup Range(h.tasks)
    /\ invoked' = IF h.facade = NotInvoked THEN <<>> ELSE <<h.facade>>
    /\ lastCall' = [op |-> op, credentials |-> credentials, request_id |-> request_id,
                    resp |-> h.resp, facade |-> h.facade]
    /\ UNCHANGED <<authRest, facades, storage>>

SentimentCall ==
    /\ issued < MaxCalls
    /\ \E credentials \in Credentials, request \in SentimentRequests,
          upstream \in SentimentUpstream :
          Respond("sentiment", credentials, uuid4(issued),
                  analyze_sentiment_endpoint(Services, insights, request, uuid4(issued), upstream))

ClassifyCall ==
    /\ issued < MaxCalls
    /\ \E credentials \in Credentials, request \in ClassificationRequests,
          upstream \in ClassificationUpstream :
          Respond("classify", credentials, uuid4(issued),
                  classify_text_endpoint(Services, insights, request, uuid4(issued), upstream))

ChatCall ==
    /\ issued < MaxCalls
    /\ \E credentials \in Credentials, request \in ChatRequests, upstream \in ChatUpstream :
          Respond("chat", credentials, uuid4(issued),
                  chat_completion_endpoint(Services, insights, request, uuid4(issued), upstream))

ClassifyPoseCall ==
    /\ issued < MaxCalls
    /\ \E credentials \in Credentials, image \in Images, run \in ModelRuns,
          rnd \in PipelineDraws :
          Respond("classify-pose", credentials, uuid4(issued),
                  classify_human_pose(Services, insights, image, uuid4(issued), run, rnd))

\* a task after which the blob service gives up its client when an upload failed
RunTask_demoting_after_failure ==
    /\ \E task \in pending, upload_file \in UploadOutcomes, upload_log \in UploadOutcomes :
          LET done == IF task.fn = "save_request_to_blob"
                      THEN save_request_to_blob(blob_service_client, storage, task, now, upload_log)
                      ELSE save_image_to_blob(blob_service_client, storage, task, now,
                                              upload_file, upload_log)
              failed == \E i \in 1..Len(done.calls) :
                            done.calls[i].out.called /\ done.calls[i].out.value \in {FALSE, None}
          IN  /\ pending' = pending \ {task}
              /\ storage' = done.container
              /\ invoked' = done.calls
              /\ blob_service_client' = IF failed THEN FALSE ELSE blob_service_client
    /\ UNCHANGED <<authVars, ai_service_client, image_classifier_model, blob_probe,
                   monitoring_enabled, DEBUG, insights, lastCall>>

\* a background task runs after its response was sent
RunTask ==
    /\ \E task \in pending, upload_file \in UploadOutcomes, upload_log \in UploadOutcomes :
          LET done == IF task.fn = "save_request_to_blob"
                      THEN save_request_to_blob(blob_service_client, storage, task, now, upload_log)
                      ELSE save_image_to_blob(blob_service_client, storage, task, now,
                                              upload_file, upload_log)
          IN  /\ pending' = pending \ {task}
              /\ storage' = done.container
              /\ invoked' = done.calls
    /\ UNCHANGED <<authVars, facades, insights, lastCall>>

\* DEBUG is read from the environment
InitPipe == InitAuth /\ expireMinutes = JWT_ACCESS_TOKEN_EXPIRE_MINUTES
                /\ InitFacades /\ DEBUG \in BOOLEAN /\ InitPipeline

NextPipe == SentimentCall \/ ClassifyCall \/ ChatCall \/ ClassifyPoseCall \/ RunTask

SpecPipe == InitPipe /\ [][NextPipe]_vars

(***************************************************************************)
(* The facade methods called one by one, on any input.                     *)
(***************************************************************************)
RequestIds == {uuid4(0)}
\* log_data as a background task builds it, at the start of the process
LogRecords == [request_id : RequestIds, endpoint : {"sentiment_analysis"},
               timestamp : {isoformat(0)}]

Invoke(op, available, input, out) ==
    invoked' = <<Invocation(op, available, input, out)>>

InvokeAnalyzeSentiment ==
    /\ \E text \in Texts, upstream \in SentimentUpstream :
          Invoke("analyze_sentiment", ai_service_client, [text |-> text, language |-> "en"],
                 analyze_sentiment(ai_service_client, text, "en", upstream))
    /\ UNCHANGED <<authVars, facades, storage, insights, pending, lastCall>>

InvokeClassifyText ==
    /\ \E text \in Texts, upstream \in ClassificationUpstream :
          Invoke("classify_text", ai_service_client, [text |-> text, categories |-> None],
                 classify_text(ai_service_client, text, None, upstream))
    /\ UNCHANGED <<authVars, facades, storage, insights, pending, lastCall>>

InvokeChatCompletion ==
    /\ \E prompt \in Texts, upstream \in ChatUpstream :
          Invoke("chat_completion", ai_service_client, [prompt |-> prompt],
                 chat_completion(ai_service_client, prompt, 150, "0.7", upstream))
    /\ UNCHANGED <<authVars, facades, storage, insights, pending, lastCall>>

InvokeClassifyImage ==
    /\ \E run \in ModelRuns, rnd \in RandomDraws :
          Invoke("classify_image", image_classifier_model, [bytes |-> "<png bytes>"],
                 classify_image(image_classifier_model, "<png bytes>", run, rnd))
    /\ UNCHANGED <<authVars, facades, storage, insights, pending, lastCall>>

InvokeSaveRequestLog ==
    /\ \E data \in LogRecords, upload \in UploadOutcomes :
          LET saved == save_request_log(blob_service_client, storage, data.request_id, data,
                                        now, upload)
          IN  /\ Invoke("save_request_log", blob_service_client, data, saved)
              /\ storage' = saved.container
    /\ UNCHANGED <<authVars, facades, insights, pending, lastCall>>

InvokeSaveInputFile ==
    /\ \E request_id \in RequestIds, content_type \in {"image/png", "image/jpeg"},
          upload \in UploadOutcomes :
          LET file_name == request_id \o "_pose.png"
              saved == save_input_file(blob_service_client, storage, file_name, "<png bytes>",
                                       content_type, now, upload)
          IN  /\ Invoke("save_input_file", blob_service_client,
                        [file_name |-> file_name, content_type |-> content_type], saved)
              /\ storage' = saved.container
    /\ UNCHANGED <<authVars, facades, insights, pending, lastCall>>

NextFacade ==
    \/ InvokeAnalyzeSentiment \/ InvokeClassifyText \/ InvokeChatCompletion
    \/ InvokeClassifyImage \/ InvokeSaveRequestLog \/ InvokeSaveInputFile

\* the services of any configuration, with DEBUG at its default
InitServices == InitPipe /\ DEBUG = TRUE

SpecFacade == InitServices /\ [][NextFacade]_vars

(***************************************************************************)
(* Properties of the auth endpoints.                                       *)
(***************************************************************************)
StoredUsernames == {u.username : u \in Range(USERS_DB)}
StoredEmails == {u.email : u \in Range(USERS_DB)}
StoredIds == {u.id : u \in Range(USERS_DB)}

\* what register does to the store when called in the current state
RegisterNow(user_data) ==
    register(USERS_DB, user_data, uuid4(issued), gensalt(issued), now)

LoginNow(login_data) == login(USERS_DB, login_data, expireMinutes, now)

MeNow(token) == get_current_user_info(USERS_DB, token, now)

IsToken(resp) ==
    /\ resp.status = 200
    /\ resp.body.kind = "Token"
    /\ resp.body.token_type = "bearer"

\* C1: a register call whose username and email are both new to the store
\* succeeds (201, the record is added, and a login with these credentials
\* succeeds on the resulting store); and in every later state, whatever calls
\* came in between, login with the credentials of any successful registration
\* answers 200 with a bearer token.
C1_RegisterThenLogin ==
    /\ \A user_data \in UserCreate :
          (user_data.username \notin StoredUsernames /\ user_data.email \notin StoredEmails)
          => LET r == RegisterNow(user_data)
             IN  /\ r.resp.status = 201
                 /\ r.resp.body.username = user_data.username
                 /\ Len(r.db) = Len(USERS_DB) + 1
                 /\ IsToken(login(r.db, [username |-> user_data.username,
                                         password |-> user_data.password],
                                  expireMinutes, now))
    /\ \A c \in accounts : IsToken(LoginNow(c))

\* a login of the first registered user succeeds after a second user was
\* registered and time has passed
C1_Witness ==
    /\ last.op = "login"
    /\ IsToken(last.resp)
    /\ Len(USERS_DB) = 2
    /\ last.req.username = USERS_DB[1].username
    /\ now > USERS_DB[2].created_at

\* C2: in every state of the store, login with a registered username and a
\* wrong password gives the same response (status, detail, headers, body) as
\* login with a username that is not registered.
C2_LoginIndistinguishable ==
    \A wrong \in UserLogin, unknown \in UserLogin :
        (/\ wrong.username \in StoredUsernames
         /\ wrong \notin accounts
         /\ unknown.username \notin StoredUsernames)
        => /\ LoginNow(wrong) = LoginNow(unknown)
           /\ LoginNow(wrong).status = 401
           /\ LoginNow(wrong).body = NoBody

\* a login with a registered username and a wrong password was rejected
C2_Witness ==
    /\ last.op = "login"
    /\ last.req.username \in StoredUsernames
    /\ last.req \notin accounts
    /\ last.resp.status = 401

\* C3: register with a username equal to a stored username (exact, case
\* sensitive comparison) answers 400 "Username already registered" and leaves
\* the store as it is, whether the email is new or not; a username that is
\* not stored, even one differing from a stored one only in case, is not
\* answered with that error.
C3_DuplicateUsername ==
    \A user_data \in UserCreate :
        LET r == RegisterNow(user_data)
        IN  /\ (user_data.username \in StoredUsernames)
                  => /\ r.resp = HTTPException(400, "Username already registered", NoHeaders)
                     /\ r.db = USERS_DB
            /\ (user_data.username \notin StoredUsernames)
                  => r.resp.detail # "Username already registered"

\* a register call with a stored username and a new email was rejected
C3_Witness ==
    /\ last.op = "register"
    /\ last.resp.detail = "Username already registered"
    /\ last.req.email \notin StoredEmails
    /\ last.req.username \in StoredUsernames

\* C4: register with a new username and the email of a stored record answers
\* 400 "Email already registered" and leaves the store as it is; no two
\* stored users share an email.
C4_DuplicateEmail ==
    /\ \A user_data \in UserCreate :
          (user_data.username \notin StoredUsernames /\ user_data.email \in StoredEmails)
          => LET r == RegisterNow(user_data)
             IN  /\ r.resp = HTTPException(400, "Email already registered", NoHeaders)
                 /\ r.db = USERS_DB
    /\ \A i, j \in 1..Len(USERS_DB) : i # j => USERS_DB[i].email # USERS_DB[j].email

\* a register call with a new username and a stored email was rejected
C4_Witness ==
    /\ last.op = "register"
    /\ last.resp.detail = "Email already registered"
    /\ last.req.username \notin StoredUsernames
    /\ last.req.email \in StoredEmails

\* the reasons a presented token is not accepted
BadSignature(token) == ~SignatureVerifies(token)
LacksClaims(token) == "sub" \notin DOMAIN token.payload \/ "user_id" \notin DOMAIN token.payload
NotAccepted(token) == BadSignature(token) \/ Expired(token, now) \/ LacksClaims(token)

\* C5: /me answers every token that is not accepted (bad signature, expired,
\* or a payload without sub or user_id) with one and the same response, the
\* 401 "Could not validate credentials", which carries no user data.
C5_OpaqueRejection ==
    \A token \in Presentable :
        NotAccepted(token)
        => /\ MeNow(token) = credentials_exception
           /\ MeNow(token).body = NoBody

\* /me rejected a correctly signed, unexpired token that has no sub, while
\* the store holds a user
C5_Witness ==
    /\ last.op = "me"
    /\ last.req = NoSubToken
    /\ ~Expired(last.req, now)
    /\ last.resp = credentials_exception
    /\ USERS_DB # <<>>

\* C6: /me with a token that is accepted but whose user_id is not the id of a
\* stored record answers 404 "User not found": no user view is returned.
C6_UnknownUserNotFound ==
    \A token \in Presentable :
        (~NotAccepted(token) /\ token.payload.user_id \notin StoredIds)
        => MeNow(token) = HTTPException(404, "User not found", NoHeaders)

\* /me answered 404 to an accepted token while the store holds users
C6_Witness ==
    /\ last.op = "me"
    /\ ~NotAccepted(last.req)
    /\ last.resp.status = 404
    /\ USERS_DB # <<>>

\* C7: /me with a token kept from a successful login, before it expires,
\* answers 200 with the view of the record that login matched: the record
\* with the login's username, whose id is the token's user_id.
C7_IdentifyReturnsLoginUser ==
    \A token \in held :
        ~Expired(token, now)
        => LET Matches(u) == u.username = token.payload.sub
               user == First(USERS_DB, Matches)
           IN  /\ user # NoneDict
               /\ MeNow(token) = Returned(200, UserView(user))
               /\ MeNow(token).body.id = token.payload.user_id
               /\ MeNow(token).body.username = token.payload.sub

\* /me returned the first user for a token of an earlier login, after
\* another user was registered
C7_Witness ==
    /\ last.op = "me"
    /\ last.req \in held
    /\ last.resp.status = 200
    /\ Len(USERS_DB) = 2
    /\ last.resp.body.id = USERS_DB[1].id
    /\ USERS_DB[2].created_at > last.req.payload.iat

\* the claims login hands to the codec for a stored user
ClaimsOf(user) ==
    [sub |-> user.username, user_id |-> user.id, email |-> user.email,
     full_name |-> user.full_name]

IssuedFor(token, user) ==
    /\ \A k \in DOMAIN ClaimsOf(user) : token.payload[k] = ClaimsOf(user)[k]
    /\ token.payload.exp = token.payload.iat + expireMinutes

Validated(credentials) ==
    /\ credentials # NoCredentials
    /\ get_current_user(credentials, now).raised = FALSE

\* C9: an inference call (sentiment, classify, chat, classify-pose) invokes
\* its facade, and answers 200 with an inference result, only when the
\* request carried a bearer token that get_current_user accepts; a call
\* with no token or a rejected token does neither.
C9_FacadeOnlyAfterToken ==
    (lastCall.op # "none" /\ ~Validated(lastCall.credentials))
    => /\ lastCall.facade = NotInvoked
       /\ lastCall.resp.status # 200

\* the result a facade method gives when its service has no client / model
IsFallback(call) ==
    CASE call.op = "analyze_sentiment" ->
            call.out = Returns(_mock_sentiment_analysis(call.input.text), FALSE)
      [] call.op = "classify_text" ->
            call.out = Returns(_mock_text_classification(call.input.text), FALSE)
      [] call.op = "chat_completion" ->
            /\ ~call.out.raised
            /\ call.out.value = [response |-> "Azure OpenAI is not configured. This is a mock response.",
                                 model |-> "mock", tokens_used |-> 0, processing_time |-> 0]
      [] call.op = "classify_image" ->
            /\ ~call.out.raised
            /\ call.out.value \in {_mock_classification(rnd) : rnd \in RandomDraws}
      [] call.op = "save_request_log" -> call.out.value = FALSE
      [] call.op = "save_input_file" -> call.out.value = None

\* C10: every call of a facade method (analyze_sentiment, classify_text,
\* chat_completion, classify_image, save_request_log, save_input_file) on a
\* service constructed without its client / model returns the fallback
\* result and does not call the collaborator, whatever the input and
\* whatever the collaborator would have done; a blob service without a
\* client never writes to the container.
C10_UnavailableGivesFallback ==
    /\ \A i \in 1..Len(invoked) :
          ~invoked[i].available
          => /\ ~invoked[i].out.called
             /\ IsFallback(invoked[i])
    /\ ~blob_service_client => storage = <<>>

\* chat_completion on a service without a client gave the mock answer, in a
\* process whose blob service has a client and has written to the container
C10_Witness ==
    /\ ~ai_service_client
    /\ Len(invoked) = 1
    /\ invoked[1].op = "chat_completion"
    /\ invoked[1].out.value.model = "mock"
    /\ blob_service_client
    /\ storage # <<>>

\* the facade methods that delegate an inference to a collaborator
InferenceOps == {"analyze_sentiment", "classify_text", "chat_completion", "classify_image"}

\* C11: no call of analyze_sentiment, classify_text, chat_completion or
\* classify_image on an available service ends with an error leaving the
\* method: an error raised by the collaborator is caught and the method
\* returns a result.
C11_NoErrorLeavesFacade ==
    \A i \in 1..Len(invoked) :
        (invoked[i].op \in InferenceOps /\ invoked[i].available)
        => ~invoked[i].out.raised

(***************************************************************************)
(* The text analysis of a service without a client, called again and      *)
(* again: every call is kept, in order.                                    *)
(***************************************************************************)
MaxHistory == 3

RepeatedTexts == {"I love this product", "GOOD but sad", "the team won the match"}
Languages == {"en", "tr"}
CustomCategories == <<"Science", "Art">>

InitRepeat ==
    /\ InitAuth
    /\ expireMinutes = JWT_ACCESS_TOKEN_EXPIRE_MINUTES
    /\ Unconfigured
    /\ InitPipeline

RepeatAnalyzeSentiment ==
    /\ Len(invoked) < MaxHistory
    /\ \E text \in RepeatedTexts, language \in Languages, upstream \in SentimentUpstream :
          invoked' = Append(invoked,
                            Invocation("analyze_sentiment", ai_service_client,
                                       [text |-> text, language |-> language],
                                       analyze_sentiment(ai_service_client, text, language,
                                                         upstream)))
    /\ UNCHANGED <<authVars, facades, storage, insights, pending, lastCall>>

RepeatClassifyText ==
    /\ Len(invoked) < MaxHistory
    /\ \E text \in RepeatedTexts, custom \in BOOLEAN, upstream \in ClassificationUpstream :
          LET custom_categories == IF custom THEN CustomCategories ELSE None
          IN  invoked' = Append(invoked,
                                Invocation("classify_text", ai_service_client,
                                           [text |-> text, custom |-> custom],
                                           classify_text(ai_service_client, text,
                                                         custom_categories, upstream)))
    /\ UNCHANGED <<authVars, facades, storage, insights, pending, lastCall>>

NextRepeat == RepeatAnalyzeSentiment \/ RepeatClassifyText

SpecRepeat == InitRepeat /\ [][NextRepeat]_vars

\* C12: on a service without a client, two calls of analyze_sentiment (two
\* calls of classify_text) with the same text return the same result
\* (sentiment / category, confidence, scores, processing time), whatever the
\* language or the custom categories of either call, in whatever order they
\* are made and whatever calls are made before or between them.
C12_SameTextSameResult ==
    \A i, j \in 1..Len(invoked) :
        (/\ ~invoked[i].available
         /\ ~invoked[j].available
         /\ invoked[i].op = invoked[j].op
         /\ invoked[i].input.text = invoked[j].input.text)
        => /\ ~invoked[i].out.raised
           /\ invoked[i].out.value = invoked[j].out.value

\* analyze_sentiment was called twice with one text, in two languages, with
\* a classify_text call of that text in between
C12_Witness ==
    /\ ~ai_service_client
    /\ Len(invoked) = 3
    /\ invoked[1].op = "analyze_sentiment"
    /\ invoked[2].op = "classify_text"
    /\ invoked[3].op = "analyze_sentiment"
    /\ invoked[1].input.text = invoked[3].input.text
    /\ invoked[2].input.text = invoked[1].input.text
    /\ invoked[1].input.language # invoked[3].input.language
    /\ invoked[1].out.value.sentiment = "positive"

\* 1.0 on the scale of the scores of a text analysis method
One(op) == IF op = "analyze_sentiment" THEN 100 ELSE 2100

\* C13: every score returned by analyze_sentiment (positive, negative,
\* neutral) and by classify_text (one score per category) on a service
\* without a client lies in [0, 1], for every input text.
C13_ScoresInUnitInterval ==
    \A i \in 1..Len(invoked) :
        (invoked[i].op \in {"analyze_sentiment", "classify_text"} /\ ~invoked[i].available)
        => LET result == invoked[i].out.value
               scores == IF invoked[i].op = "analyze_sentiment"
                         THEN result.scores ELSE result.all_scores
           IN  \A k \in DOMAIN scores : 0 <= scores[k] /\ scores[k] <= One(invoked[i].op)

\* the number of positive (negative) keywords a text contains
PositiveKeywords(text) == CountIn(positive_words, lower(Chars(text)))
NegativeKeywords(text) == CountIn(negative_words, lower(Chars(text)))

\* C14: a sentiment call answered by a service without a client returns 200
\* with sentiment "positive" when the text contains more positive than
\* negative keywords, "negative" when it contains more negative ones and
\* "neutral" when it contains as many of each; the confidence is at most
\* 0.95, the keys of scores are exactly positive, negative and neutral,
\* processing_time is not negative and request_id is a non-empty string.
C14_MockSentimentResponse ==
    (lastCall.op = "sentiment" /\ ~lastCall.facade.available)
    => LET text == lastCall.facade.input.text
           body == lastCall.resp.body
       IN  /\ lastCall.resp.status = 200
           /\ body.text = text
           /\ PositiveKeywords(text) > NegativeKeywords(text) => body.sentiment = "positive"
           /\ NegativeKeywords(text) > PositiveKeywords(text) => body.sentiment = "negative"
           /\ PositiveKeywords(text) = NegativeKeywords(text) => body.sentiment = "neutral"
           /\ body.confidence <= 95
           /\ DOMAIN body.scores = {"positive", "negative", "neutral"}
           /\ body.processing_time >= 0
           /\ body.request_id \notin {"", None}
           /\ body.request_id = lastCall.request_id

\* "I love this product" was answered "positive" by a service without a client
C14_Witness ==
    /\ lastCall.op = "sentiment"
    /\ ~ai_service_client
    /\ lastCall.facade.input.text = "I love this product"
    /\ lastCall.resp.status = 200
    /\ lastCall.resp.body.sentiment = "positive"
    /\ lastCall.resp.body.confidence = 60

\* C15: every classify_image result of a service without a model has a pose
\* among lying, standing and sitting, a confidence in [0.7, 0.95] that is
\* the score of that pose, a score in [0.05, 0.3] for each of the two other
\* classes (so the pose has the strictly highest score), and the message
\* that tells a mock classification.
C15_MockClassificationRanges ==
    \A i \in 1..Len(invoked) :
        (invoked[i].op = "classify_image" /\ ~invoked[i].available)
        => LET result == invoked[i].out.value
           IN  /\ ~invoked[i].out.raised
               /\ result.pose \in {"lying", "standing", "sitting"}
               /\ 70 <= result.confidence /\ result.confidence <= 95
               /\ DOMAIN result.all_scores = {"lying", "standing", "sitting"}
               /\ result.all_scores[result.pose] = result.confidence
               /\ \A cls \in DOMAIN result.all_scores \ {result.pose} :
                     /\ 5 <= result.all_scores[cls] /\ result.all_scores[cls] <= 30
                     /\ result.all_scores[cls] < result.all_scores[result.pose]
               /\ result.message = "Using mock classification (model not loaded)"

\* a service without a model answered "sitting" with the lowest confidence
\* drawn for it and the highest score drawn for the two other classes
C15_Witness ==
    /\ ~image_classifier_model
    /\ Len(invoked) = 1
    /\ invoked[1].op = "classify_image"
    /\ invoked[1].out.value.pose = "sitting"
    /\ invoked[1].out.value.confidence = 70
    /\ invoked[1].out.value.all_scores["lying"] = 30
    /\ invoked[1].out.value.all_scores["standing"] = 30

\* the background tasks a step adds
Scheduled == pending' \ pending

\* C16: every handled inference call, whatever its outcome, schedules
\* exactly one write of a record of that call: the step in which a handler
\* answers adds exactly one background task, and that task carries the
\* request id of the call.
C16_OneWritePerCall ==
    [][lastCall' # lastCall
       => /\ Cardinality(Scheduled) = 1
          /\ \A task \in Scheduled : task.request_id = lastCall'.request_id]_vars

\* the methods of the blob service that write to the container
BlobOps == {"save_request_log", "save_input_file"}
WritesOf(calls) == {i \in 1..Len(calls) : calls[i].op \in BlobOps}

\* the response of each endpoint for each request, as the n-th call of a
\* process whose services are `svc`
ResponsesWith(svc, n) ==
    [sentiment |-> [request \in SentimentRequests, upstream \in SentimentUpstream |->
                       analyze_sentiment_endpoint(svc, <<>>, request, uuid4(n), upstream).resp],
     classify |-> [request \in ClassificationRequests, upstream \in ClassificationUpstream |->
                      classify_text_endpoint(svc, <<>>, request, uuid4(n), upstream).resp],
     chat |-> [request \in ChatRequests, upstream \in ChatUpstream |->
                  chat_completion_endpoint(svc, <<>>, request, uuid4(n), upstream).resp],
     pose |-> [image \in Images, run \in ModelRuns |->
                  {classify_human_pose(svc, <<>>, image, uuid4(n), run, rnd).resp :
                      rnd \in PipelineDraws}]]

\* whether the blob service has a client makes no difference to a response
SameResponseWithoutStore ==
    \A n \in 0..MaxCalls :
        ResponsesWith(Services, n)
            = ResponsesWith([Services EXCEPT !.blob_client = ~blob_service_client], n)

\* a step in which the blob service is called, or the container changes,
\* runs a task that was pending, so one of a call answered before, and
\* leaves the response as it was
WritesFollowResponse ==
    (storage' # storage \/ WritesOf(invoked') # {})
    => /\ lastCall' = lastCall
       /\ \E task \in pending \ pending' :
             /\ task.request_id \in {uuid4(n) : n \in 0..(issued - 1)}
             /\ \A i \in WritesOf(invoked') :
                   IF invoked'[i].op = "save_request_log"
                   THEN invoked'[i].input.request_id = task.request_id
                   ELSE invoked'[i].input.file_name = task.request_id \o "_" \o task.filename

\* C17: the blob writes of a call are made by a background task, in a later
\* step than the one in which the handler determined the response, and no
\* such step changes a response; the services of a process are fixed when it
\* starts, and the response an endpoint gives to a request is the same
\* whether the blob service has a client or not, so it is fixed before the
\* outcome of any upload.
C17_ResponseBeforeWrites ==
    /\ SameResponseWithoutStore
    /\ [][WritesFollowResponse /\ UNCHANGED facades]_vars

\* the log of a call answered 200 was not written, once because the upload
\* raised and once because the service has no client; the response is kept
C17_Witness ==
    /\ lastCall.resp.status = 200
    /\ pending = {}
    /\ storage = <<>>
    /\ Len(invoked) = 1
    /\ invoked[1].op = "save_request_log"
    /\ invoked[1].input.request_id = lastCall.request_id
    /\ invoked[1].out.value = FALSE

\* C18: a call that an inference endpoint answers with a server error (500)
\* carries the message of the original error in its detail only when
\* settings.DEBUG is true; when it is false the detail is the fixed redacted
\* message of the global exception handler.
C18_DetailOnlyInDebug ==
    (lastCall.resp.status = 500 /\ ~DEBUG)
    => lastCall.resp.detail = global_exception_handler(DEBUG, "").detail

\* what classify_human_pose does with an upload when called in the current state
ClassifyPoseNow(image, run, rnd) ==
    classify_human_pose(Services, insights, image, uuid4(issued), run, rnd)

IsImage(image) == startswith(image.content_type, "image/")

\* a step in which classify-pose answers 400 emits no telemetry, calls no
\* service, adds no background task and writes nothing
RejectionDoesNothingElse ==
    (lastCall' # lastCall /\ lastCall'.op = "classify-pose" /\ lastCall'.resp.status = 400)
    => /\ lastCall'.facade = NotInvoked
       /\ invoked' = <<>>
       /\ UNCHANGED <<insights, pending, storage>>

MaxDays == 1
MinutesPerDay == 24 * 60

\* the clock passes midnight
NextDay ==
    /\ now \div MinutesPerDay < MaxDays
    /\ now' = (now \div MinutesPerDay + 1) * MinutesPerDay
    /\ UNCHANGED <<USERS_DB, issued, expireMinutes, held, accounts, last, inflight, pipeVars>>

NextBlob == InvokeSaveRequestLog \/ InvokeSaveInputFile \/ NextDay

SpecBlob == InitServices /\ [][NextBlob]_vars

\* the names under which the log of a request may be found
LogKeys(request_id) ==
    {"logs/" \o Day(d * MinutesPerDay) \o "/" \o request_id \o ".json" : d \in 0..(MaxDays + 1)}

\* C20: writing the same record with the same request_id more than once
\* leaves one blob for that request: every write goes to the same key
\* logs/<day>/<request_id>.json, so the container never holds two logs of
\* one request.
C20_OneBlobPerRecord ==
    \A data \in LogRecords :
        Cardinality(DOMAIN storage \cap LogKeys(data.request_id)) <= 1

\* the name under which the upload of a call is stored when written now
InputKey(request_id, filename) ==
    "inputs/" \o DayAndTime(now) \o "_" \o request_id \o "_" \o filename

\* C21: the file uploaded with a classify-pose call is stored with the
\* content type the caller declared for it: the blob that save_input_file
\* wrote for the call, under its timestamp-prefixed key, has the content
\* type of the upload.
C21_StoredWithDeclaredType ==
    (lastCall.op = "classify-pose" /\ lastCall.facade # NotInvoked)
    => LET image == lastCall.facade.input
           key == InputKey(lastCall.request_id, image.filename)
       IN  key \in DOMAIN storage => storage[key].content_type = image.content_type

(***************************************************************************)
(* Register requests in flight together.  The event loop runs a handler    *)
(* from one suspension point to the next; register (async def, no await in *)
(* its body) has none between its first line and its return, so a request  *)
(* is in flight from its arrival until the loop runs the handler, in one   *)
(* step.                                                                   *)
(***************************************************************************)
MaxInFlight == 2

NotHandled == [status |-> 0]

\* a register request arrives; whether its username is free at that moment
\* is kept with it
ReceiveRegister ==
    /\ Len(inflight) < MaxInFlight
    /\ \E user_data \in UserCreate :
          inflight' = Append(inflight,
                             [user_data |-> user_data,
                              free |-> user_data.username \notin
                                           {u.username : u \in Range(USERS_DB)},
                              resp |-> NotHandled])
    /\ UNCHANGED <<USERS_DB, issued, now, expireMinutes, held, accounts, last, pipeVars>>

\* a handler with a suspension point between the username check and the
\* insert: the check sees the store as it was when the request arrived
HandleRegister_checking_at_arrival ==
    /\ \E i \in 1..Len(inflight) :
          /\ inflight[i].resp = NotHandled
          /\ LET user_data == inflight[i].user_data
                 r == IF inflight[i].free
                      THEN register_without_username_check(USERS_DB, user_data, uuid4(issued),
                                                           gensalt(issued), now)
                      ELSE register(USERS_DB, user_data, uuid4(issued), gensalt(issued), now)
             IN  /\ USERS_DB' = r.db
                 /\ issued' = IF r.db = USERS_DB THEN issued ELSE issued + 1
                 /\ inflight' = [inflight EXCEPT ![i].resp = r.resp]
                 /\ last' = [op |-> "register", req |-> user_data, resp |-> r.resp]
    /\ UNCHANGED <<now, expireMinutes, held, accounts, pipeVars>>

\* the event loop runs register for one of the requests in flight
HandleRegister ==
    /\ \E i \in 1..Len(inflight) :
          /\ inflight[i].resp = NotHandled
          /\ LET user_data == inflight[i].user_data
                 r == register(USERS_DB, user_data, uuid4(issued), gensalt(issued), now)
             IN  /\ USERS_DB' = r.db
                 /\ issued' = IF r.db = USERS_DB THEN issued ELSE issued + 1
                 /\ inflight' = [inflight EXCEPT ![i].resp = r.resp]
                 /\ last' = [op |-> "register", req |-> user_data, resp |-> r.resp]
    /\ UNCHANGED <<now, expireMinutes, held, accounts, pipeVars>>

NextRace == ReceiveRegister \/ HandleRegister

SpecRace == Init /\ [][NextRace]_vars

\* the requests in flight together for one username, all handled
HandledTogether(i, j) ==
    /\ i # j
    /\ inflight[i].user_data.username = inflight[j].user_data.username
    /\ inflight[i].free /\ inflight[j].free
    /\ inflight[i].resp # NotHandled /\ inflight[j].resp # NotHandled

RecordsOf(username) == {k \in 1..Len(USERS_DB) : USERS_DB[k].username = username}

InitProbe ==
    /\ InitAuth
    /\ expireMinutes = JWT_ACCESS_TOKEN_EXPIRE_MINUTES
    /\ ai_service_client = AzureAIService_init(FALSE, FALSE)
    /\ image_classifier_model = ImageClassifierService_init(FALSE, FALSE, FALSE)
    /\ monitoring_enabled = MonitoringService_init(FALSE, FALSE, FALSE)
    /\ DEBUG = TRUE
    /\ blob_probe \in Probes
    /\ blob_service_client = BlobStorageService_init(blob_probe.connection_string,
                                                     blob_probe.connected,
                                                     blob_probe.container_ok)
    /\ InitPipeline

SpecProbe == InitProbe /\ [][NextBlob]_vars

\* C23: the blob service has a client only if the connection string is
\* configured and the whole initialization succeeded, the container check
\* (exists, else create) included; when that check failed, no later
\* save_request_log or save_input_file calls the store.
C23_AvailableOnlyIfProbeSucceeded ==
    /\ blob_service_client
          => (blob_probe.connection_string /\ blob_probe.connected /\ blob_probe.container_ok)
    /\ ~blob_probe.container_ok
          => \A i \in 1..Len(invoked) : invoked[i].op \in BlobOps => ~invoked[i].out.called

\* the availability of the four services
Availability ==
    <<ai_service_client, image_classifier_model, blob_service_client, monitoring_enabled>>

\* C24: no step of the process after construction changes the availability
\* of a service: whatever an endpoint or a background task does (a call
\* that delegates, one whose collaborator raises, one answered by the
\* fallback, a telemetry event, an upload that fails), client, model and
\* enabled stay as the constructors left them.
C24_AvailabilityFixed == [][Availability' = Availability]_vars

\* an upload of the blob service failed and it still has its client, after
\* a sentiment call that was delegated to the completion client
C24_Witness ==
    /\ blob_service_client /\ ai_service_client /\ monitoring_enabled
    /\ lastCall.op = "sentiment"
    /\ lastCall.facade.out.called
    /\ Len(invoked) = 1
    /\ invoked[1].op = "save_request_log"
    /\ invoked[1].out.called
    /\ invoked[1].out.value = FALSE
    /\ Len(insights) >= 1

\* the fields save_request_to_blob gives a record
RecordFields == {"request_id", "endpoint", "request", "response", "timestamp"}

\* the blob a write of save_request_log for this record made, if it made one
WrittenLogs(call) ==
    {name \in DOMAIN storage :
        /\ name \in LogKeys(call.input.request_id)
        /\ call.out.value = TRUE}

\* C25: a record is as its background task created it all the way through
\* the write: after save_request_log ran on the record of a text endpoint,
\* the dict the task passed in still has exactly the fields request_id,
\* endpoint, request, response and timestamp with the values it was created
\* with, and the content of the blob written equals the record as created.
C25_RecordNeverMutated ==
    \A i \in 1..Len(invoked) :
        (invoked[i].op = "save_request_log" /\ DOMAIN invoked[i].input = RecordFields)
            => /\ invoked[i].out.data = invoked[i].input
               /\ \A name \in WrittenLogs(invoked[i]) :
                      storage[name].content = invoked[i].input

(***************************************************************************)
(* The auth endpoints and an inference endpoint with its background task   *)
(* in one process.                                                         *)
(***************************************************************************)
NextStore == Next \/ ChatCall \/ RunTask
SpecStore == Init /\ [][NextStore]_vars

\* every record of the store is still there, at its place, with all fields
RecordsKept ==
    /\ Len(USERS_DB') >= Len(USERS_DB)
    /\ \A k \in 1..Len(USERS_DB) : USERS_DB'[k] = USERS_DB[k]

AllActive == \A k \in 1..Len(USERS_DB) : USERS_DB[k].is_active = TRUE

NoInactiveError == ~(last.op = "login" /\ last.resp.detail = "Inactive user")

\* C26: no operation changes or removes a record of the credential store:
\* over every step (a register that succeeds or fails, a login, /auth/me,
\* an inference call, a background task) each record already stored stays
\* with all its fields, so the store only grows; every stored user is
\* active in every reachable state and login never answers "Inactive user".
C26_RecordsNeverChange == [](AllActive /\ NoInactiveError) /\ [][RecordsKept]_vars

\* two users are stored, an inference call was answered and its task ran,
\* and the first user then logged in
C26_Witness ==
    /\ Len(USERS_DB) >= 2
    /\ lastCall.op = "chat"
    /\ pending = {}
    /\ last.op = "login"
    /\ last.resp.status = 200
    /\ last.req.username = USERS_DB[1].username

\* the ids str(uuid.uuid4()) has given so far
IssuedIds == {uuid4(n) : n \in 0..(issued - 1)}

\* the logs in the container, and the id in the key of a log
StoredLogs == {name \in DOMAIN storage : \E n \in 0..MaxCalls : name \in LogKeys(uuid4(n))}
IdInKey(name) == CHOOSE id \in {uuid4(n) : n \in 0..MaxCalls} : name \in LogKeys(id)

\* the ids some artefact of an earlier call carries
IdsInUse ==
    {task.request_id : task \in pending}
        \cup {storage[name].content.request_id : name \in StoredLogs}
        \cup {IdInKey(name) : name \in StoredLogs}
        \cup (IF lastCall = NoInferenceCall THEN {} ELSE {lastCall.request_id})

\* the response, the task and the stored record of a call carry its id
LinkedById ==
    /\ (lastCall # NoInferenceCall /\ lastCall.resp.status = 200)
          => lastCall.resp.body.request_id = lastCall.request_id
    /\ \A task \in pending :
          /\ task.request_id \in IssuedIds
          /\ task.fn = "save_request_to_blob"
                => task.response_data.request_id = task.request_id
    /\ \A name \in StoredLogs :
          LET record == storage[name].content
          IN  /\ record.request_id = IdInKey(name)
              /\ record.request_id \in IssuedIds
              /\ "response" \in DOMAIN record
                    => /\ record.response.request_id = record.request_id
                       /\ (lastCall.request_id = record.request_id
                              => record.response = lastCall.resp.body)

\* a call is given an id no artefact of another call carries
FreshId == (issued' # issued \/ lastCall' # lastCall) => lastCall'.request_id \notin IdsInUse

\* C27: every inference call has an id of its own, different from the id
\* of every other call, and the id links what the call leaves behind: the
\* request_id in the response, the request_id in the persisted record and
\* the request_id in the key of the record's blob are the same, and no
\* record is stored under the id of another call.
C27_OneIdLinksTheCall == []LinkedById /\ [][FreshId]_vars

\* two calls were answered and the records of both are stored, each under
\* its own key
C27_Witness ==
    /\ issued = 2
    /\ pending = {}
    /\ Cardinality(StoredLogs) = 2
    /\ \E name \in StoredLogs : storage[name].content.request_id = lastCall.request_id
    /\ lastCall.resp.status = 200

====
